---- MODULE Spec2Model ----
(***************************************************************************)
(* In-memory event store of demo-copilot-pb-jan2026 and its producers.     *)
(*                                                                         *)
(* The repository carries three revisions of the event module:             *)
(*   "event_js"  src/event.js          audit API, shallow copies           *)
(*   "part_000"  src/unnamed/part_000  poll API, JSON deep copies          *)
(*   "part_001"  src/unnamed/part_001  poll API, deep copies + try/catch   *)
(* and two revisions of the login module (src/login.js and the second      *)
(* half of src/unnamed/part_004).  The revision in use is fixed in Init.   *)
(*                                                                         *)
(* JavaScript objects live in a heap so that aliasing between the caller's *)
(* objects and the stored events is part of the state.                     *)
(***************************************************************************)
EXTENDS Integers, Sequences, FiniteSets, TLC

VARIABLES
  eventModule,     \* which revision of the event module is loaded
  loginModule,     \* which revision of the login module is loaded
  heap,            \* JavaScript heap: sequence of objects, address = index
  events,          \* `const events = []`: sequence of addresses of event objects
  eventIdCounter,  \* `let eventIdCounter = 1`
  now,             \* the wall clock read by `new Date()`
  arg,             \* the caller's reference to the object it passed last
  ret,             \* the caller's reference to the payload returned last
  issued,          \* history: ids returned by successful createEvent calls since the last clear
  generation,      \* history: how many times clearEvents has run, up to MaxGeneration
  last             \* history: the last call, its primitive arguments and its outcome

vars == <<eventModule, loginModule, heap, events, eventIdCounter, now, arg, ret, issued, generation, last>>

----------------------------------------------------------------------------
(* Bounds *)

MaxEvents == 2
MaxCounter == 3
MaxNow == 1
MaxGeneration == 1
ViewDepth == 4
MaxAudited == 3

----------------------------------------------------------------------------
(* JavaScript values.  A string is a sequence of chunks, each chunk either *)
(* one whitespace character or a run of non-whitespace characters.  A      *)
(* number n is kept as 2*n so that halves are representable.               *)

Val(t, s, n) == [t |-> t, s |-> s, n |-> n, f |-> <<>>]

Undefined == Val("undefined", <<>>, 0)
Null == Val("null", <<>>, 0)
Fn == Val("function", <<>>, 0)
True == Val("boolean", <<>>, 1)
Str(s) == Val("string", s, 0)
Num(n) == Val("number", <<>>, 2 * n)
Half(h) == Val("number", <<>>, h)
Ref(a) == Val("ref", <<>>, a)

\* whitespace characters; " {n}" is a run of n spaces
WhiteSpace == {" ", "\t", " {247}", " {250}"}

RECURSIVE TrimStart(_)
TrimStart(s) ==
  IF s # <<>> /\ Head(s) \in WhiteSpace THEN TrimStart(Tail(s)) ELSE s

RECURSIVE TrimEnd(_)
TrimEnd(s) ==
  IF s # <<>> /\ s[Len(s)] \in WhiteSpace THEN TrimEnd(SubSeq(s, 1, Len(s) - 1)) ELSE s

\* a trim that forgets the trailing whitespace
TrimLeadingOnly(s) == TrimStart(s)

\* String.prototype.trim on the chunks
Trim(s) == TrimEnd(TrimStart(s))

\* a value used as it came, its whitespace kept
Untrimmed(v) == v

\* String.prototype.trim on a string value
TrimV(v) == [v EXCEPT !.s = Trim(v.s)]

\* characters in a chunk; runs of one repeated character are written x{n}
ChunkLen(c) ==
  CASE c = " {247}" -> 247
    [] c = " {250}" -> 250
    [] c = "x{101}" -> 101
    [] c = "x{255}" -> 255
    [] c = "x{256}" -> 256
    [] OTHER -> Len(c)

\* the length taken after trimming instead of before
RECURSIVE StrLenTrimmed(_)
StrLenTrimmed(s) ==
  IF Trim(s) = <<>> THEN 0 ELSE ChunkLen(Head(Trim(s))) + StrLenTrimmed(Tail(Trim(s)))

RECURSIVE StrLen(_)
StrLen(s) == IF s = <<>> THEN 0 ELSE ChunkLen(Head(s)) + StrLen(Tail(s))

\* new Date().toISOString(): the ISO-8601 text of instant t
ToISOString(t) == Val("string", <<"ISO-8601">>, t)

Obj(kind, f) == [kind |-> kind, f |-> f]

Put(f, k, v) == [x \in (DOMAIN f) \cup {k} |-> IF x = k THEN v ELSE f[x]]

\* f overridden by g: { ...f, ...g }
Merge(f, g) == [x \in (DOMAIN f) \cup (DOMAIN g) |-> IF x \in DOMAIN g THEN g[x] ELSE f[x]]

Alloc(h, o) == [heap |-> Append(h, o), ref |-> Ref(Len(h) + 1)]

\* an object literal from <<key, value>> pairs
Fields(pairs) ==
  [k \in {pairs[i][1] : i \in 1..Len(pairs)} |->
     pairs[CHOOSE i \in 1..Len(pairs) : pairs[i][1] = k][2]]

\* v[k] for a v that is neither null nor undefined
Get(h, v, k) ==
  IF v.t = "ref" /\ k \in DOMAIN h[v.n].f THEN h[v.n].f[k] ELSE Undefined

Nullish(v) == v.t \in {"undefined", "null"}

\* ToBoolean(v)
Truthy(v) ==
  CASE Nullish(v) -> FALSE
    [] v.t = "string" -> v.s # <<>>
    [] v.t = "number" -> v.n # 0
    [] v.t = "boolean" -> v.n = 1
    [] OTHER -> TRUE

\* typeof v
TypeOf(v) == IF v.t \in {"ref", "null"} THEN "object" ELSE v.t

\* Array.isArray(v)
IsArray(h, v) == v.t = "ref" /\ h[v.n].kind = "array"

RECURSIVE SetToSeq(_)
SetToSeq(S) ==
  IF S = {} THEN <<>>
  ELSE LET x == CHOOSE y \in S : TRUE IN <<x>> \o SetToSeq(S \ {x})

RefKeys(h, a) == {k \in DOMAIN h[a].f : h[a].f[k].t = "ref"}

----------------------------------------------------------------------------
(* JSON.parse(JSON.stringify(x)): a deep copy that throws on a cycle,      *)
(* drops function and undefined members of objects and turns them into     *)
(* null inside arrays.                                                     *)

Dropped(v) == v.t \in {"function", "undefined"}

RECURSIVE Nodes(_, _, _, _)
Nodes(h, a, p, anc) ==
  IF a \in anc THEN {[p |-> p, a |-> 0]}
  ELSE {[p |-> p, a |-> a]} \cup
       UNION {Nodes(h, h[a].f[k].n, Append(p, k), anc \cup {a}) : k \in RefKeys(h, a)}

JSONClone(h, a) ==
  LET ns == Nodes(h, a, <<>>, {}) IN
  IF \E n \in ns : n.a = 0
  THEN [ok |-> FALSE, heap |-> h, ref |-> Undefined]
  ELSE LET sq == SetToSeq(ns)
           AddrOf(p) == Len(h) + (CHOOSE i \in 1..Len(sq) : sq[i].p = p)
           NewObj(n) ==
             LET o == h[n.a]
                 keep == IF o.kind = "array" THEN DOMAIN o.f
                         ELSE {k \in DOMAIN o.f : ~Dropped(o.f[k])}
             IN Obj(o.kind,
                    [k \in keep |-> IF o.f[k].t = "ref" THEN Ref(AddrOf(Append(n.p, k)))
                                    ELSE IF Dropped(o.f[k]) THEN Null
                                    ELSE o.f[k]])
       IN [ok |-> TRUE,
           heap |-> h \o [i \in 1..Len(sq) |-> NewObj(sq[i])],
           ref |-> Ref(AddrOf(<<>>))]

\* array index i (from 1) as the property key JavaScript uses
Idx(i) == ToString(i - 1)

\* the properties of an array, or of the characters of a string
ArrayFields(sq) ==
  [k \in {Idx(i) : i \in 1..Len(sq)} |-> sq[CHOOSE i \in 1..Len(sq) : Idx(i) = k]]

\* the own enumerable properties that `...v` spreads
Spread(h, v) ==
  IF v.t = "ref" THEN h[v.n].f
  ELSE IF v.t = "string" THEN ArrayFields([i \in 1..Len(v.s) |-> Str(<<v.s[i]>>)])
  ELSE <<>>

----------------------------------------------------------------------------
(* Garbage collection: objects no root reaches are dropped and the rest    *)
(* renumbered in traversal order, which keeps the heap finite.             *)

InSeq(x, s) == \E i \in 1..Len(s) : s[i] = x

Children(h, a) ==
  LET ks == SetToSeq(RefKeys(h, a)) IN [i \in 1..Len(ks) |-> h[a].f[ks[i]].n]

RECURSIVE Trav(_, _, _)
Trav(h, todo, seen) ==
  IF todo = <<>> THEN seen
  ELSE IF InSeq(Head(todo), seen) THEN Trav(h, Tail(todo), seen)
  ELSE Trav(h, Children(h, Head(todo)) \o Tail(todo), Append(seen, Head(todo)))

RootOf(v) == IF v.t = "ref" THEN <<v.n>> ELSE <<>>

Collect(h, ev, a, r) ==
  LET order == Trav(h, ev \o RootOf(a) \o RootOf(r), <<>>)
      New(x) == CHOOSE i \in 1..Len(order) : order[i] = x
      Move(v) == IF v.t = "ref" THEN Ref(New(v.n)) ELSE v
  IN [heap |-> [i \in 1..Len(order) |->
                  Obj(h[order[i]].kind,
                      [k \in DOMAIN h[order[i]].f |-> Move(h[order[i]].f[k])])],
      events |-> [i \in 1..Len(ev) |-> New(ev[i])],
      arg |-> Move(a),
      ret |-> Move(r)]

----------------------------------------------------------------------------
(* What a reader of the store sees: the value of v with every reference    *)
(* followed, down to ViewDepth levels.                                     *)

RECURSIVE View(_, _, _)
View(h, v, d) ==
  IF v.t # "ref" THEN v
  ELSE IF d = 0 THEN Val("...", <<>>, 0)
  ELSE [t |-> h[v.n].kind, s |-> <<>>, n |-> 0,
        f |-> [k \in DOMAIN h[v.n].f |-> View(h, h[v.n].f[k], d - 1)]]

\* the element of a singleton; in The({e : x \in {v}}) the value v is computed
\* once and named x, as a const initializer is
The(S) == CHOOSE x \in S : TRUE

----------------------------------------------------------------------------
(* The store as one value, threaded through the operations.                *)

Store == [heap |-> heap, events |-> events, ctr |-> eventIdCounter, issued |-> issued]

NoUser == [username |-> Undefined, role |-> Undefined]

Result(st, ok, err, r, id, count) ==
  [st |-> st, ok |-> ok, err |-> err, ret |-> r, id |-> id, count |-> count, user |-> NoUser]

Fail(st, err) == Result(st, "false", err, Undefined, 0, 0)
Throw(st, err) == Result(st, "throw", err, Undefined, 0, 0)

IsNonEmptyString(v) == v.t = "string" /\ Trim(v.s) # <<>>

\* the metadata = {} default parameter
DefaultObject(h, v) ==
  IF v.t = "undefined" THEN Alloc(h, Obj("object", <<>>)) ELSE [heap |-> h, ref |-> v]

EventObject(id, type, message, metadata) ==
  Obj("object",
      [k \in {"id", "type", "message", "metadata", "timestamp"} |->
         CASE k = "id" -> Num(id)
           [] k = "type" -> TrimV(type)
           [] k = "message" -> TrimV(message)
           [] k = "metadata" -> metadata
           [] OTHER -> ToISOString(now)])

\* src/event.js createEvent: shallow copy of metadata, stored object returned
CreateEventShallow(st, type, message, m) ==
  The({The({Result([heap |-> e.heap, events |-> Append(st.events, e.ref.n),
                    ctr |-> st.ctr + 1, issued |-> Append(st.issued, st.ctr)],
                   "true", "", e.ref, st.ctr, 0)
            : e \in {Alloc(c.heap, EventObject(st.ctr, type, message, c.ref))}})
       : c \in {Alloc(m.heap, Obj("object", Spread(m.heap, m.ref)))}})

\* part_000, after the metadata copy c succeeded: the push and the copy handed back
PushDeep(st, type, message, c) ==
  The({The({LET pushed == [heap |-> r.heap, events |-> Append(st.events, e.ref.n),
                           ctr |-> st.ctr + 1, issued |-> st.issued]
            IN IF ~r.ok THEN Throw(pushed, "TypeError: Converting circular structure to JSON")
               ELSE Result([pushed EXCEPT !.issued = Append(st.issued, st.ctr)],
                           "true", "", r.ref, st.ctr, 0)
            : r \in {JSONClone(e.heap, e.ref.n)}})
       : e \in {Alloc(c.heap, EventObject(st.ctr, type, message, c.ref))}})

\* part_000 createEvent: id taken first, then the deep copy, which may throw
CreateEventDeep(st, type, message, m) ==
  The({IF ~c.ok
       THEN Throw([st EXCEPT !.ctr = st.ctr + 1], "TypeError: Converting circular structure to JSON")
       ELSE PushDeep(st, type, message, c)
       : c \in {JSONClone(m.heap, m.ref.n)}})

\* part_001, after the metadata copy c succeeded: the push and the copy handed back
PushGuarded(st, type, message, c) ==
  The({The({IF ~r.ok THEN Fail([heap |-> e.heap, events |-> Append(st.events, e.ref.n),
                                ctr |-> st.ctr + 1, issued |-> st.issued],
                               "Failed to serialize event data")
            ELSE Result([heap |-> r.heap, events |-> Append(st.events, e.ref.n),
                         ctr |-> st.ctr + 1, issued |-> Append(st.issued, st.ctr)],
                        "true", "", r.ref, st.ctr, 0)
            : r \in {JSONClone(e.heap, e.ref.n)}})
       : e \in {Alloc(c.heap, EventObject(st.ctr, type, message, c.ref))}})

\* part_001 createEvent: deep copy first, inside try/catch, then the id
CreateEventGuarded(st, type, message, m) ==
  The({IF ~c.ok
       THEN Fail(st, "Metadata contains non-serializable data (e.g., circular references, functions)")
       ELSE PushGuarded(st, type, message, c)
       : c \in {JSONClone(m.heap, m.ref.n)}})

createEvent(st, type, message, metadata) ==
  The({IF ~IsNonEmptyString(type)
       THEN Fail(st, "Event type is required and must be a non-empty string")
       ELSE IF ~IsNonEmptyString(message)
       THEN Fail(st, "Event message is required and must be a non-empty string")
       ELSE IF TypeOf(m.ref) # "object" \/ m.ref.t = "null" \/ IsArray(m.heap, m.ref)
       THEN Fail(st, "Metadata must be an object")
       ELSE CASE eventModule = "event_js" -> CreateEventShallow(st, type, message, m)
              [] eventModule = "part_000" -> CreateEventDeep(st, type, message, m)
              [] OTHER -> CreateEventGuarded(st, type, message, m)
       : m \in {DefaultObject(st.heap, metadata)}})

\* a filter that compares the type as given, untrimmed
FilterUntrimmed(st, type) ==
  SelectSeq(st.events, LAMBDA a : st.heap[a].f["type"] = type)

\* events.filter(e => e.type === type.trim())
FilterByType(st, type) ==
  SelectSeq(st.events, LAMBDA a : st.heap[a].f["type"] = TrimV(type))

\* the array handed back: [...filteredEvents] or its JSON deep copy
ReturnArray(st, sel) ==
  The({IF eventModule = "event_js" THEN [ok |-> TRUE, heap |-> arr.heap, ref |-> arr.ref]
       ELSE JSONClone(arr.heap, arr.ref.n)
       : arr \in {Alloc(st.heap, Obj("array", ArrayFields([i \in 1..Len(sel) |-> Ref(sel[i])])))}})

\* getEvents(type = null)
getEvents(st, type) ==
  IF type.t \notin {"undefined", "null"} /\ ~IsNonEmptyString(type)
  THEN Fail(st, "Event type must be a non-empty string when provided")
  ELSE The({The({IF ~arr.ok
                 THEN IF eventModule = "part_001" THEN Fail(st, "Failed to serialize events data")
                      ELSE Throw(st, "TypeError: Converting circular structure to JSON")
                 ELSE Result([st EXCEPT !.heap = arr.heap], "true", "", arr.ref, 0, Len(sel))
                 : arr \in {ReturnArray(st, sel)}})
            : sel \in {IF type.t \in {"undefined", "null"} THEN st.events
                       ELSE FilterByType(st, type)}})

\* getEventById(id)
getEventById(st, id) ==
  IF id.t # "number" \/ id.n <= 0 \/ id.n % 2 # 0
  THEN Fail(st, "Event ID must be a positive integer")
  ELSE LET hit == SelectSeq(st.events, LAMBDA a : st.heap[a].f["id"] = id) IN
       IF hit = <<>> THEN Fail(st, "Event with ID not found")
       ELSE IF eventModule = "event_js"
       THEN The({Result([st EXCEPT !.heap = c.heap], "true", "", c.ref, id.n \div 2, 0)
                 : c \in {Alloc(st.heap, Obj("object", st.heap[hit[1]].f))}})
       ELSE The({IF c.ok THEN Result([st EXCEPT !.heap = c.heap], "true", "", c.ref, id.n \div 2, 0)
                 ELSE IF eventModule = "part_001" THEN Fail(st, "Failed to serialize event data")
                 ELSE Throw(st, "TypeError: Converting circular structure to JSON")
                 : c \in {JSONClone(st.heap, hit[1])}})

\* clearEvents()
clearEvents(st) ==
  Result([st EXCEPT !.events = <<>>, !.ctr = 1, !.issued = <<>>],
         "true", "", Undefined, 0, Len(st.events))

\* getEventCount(type = null)
getEventCount(st, type) ==
  IF type.t \in {"undefined", "null"} THEN Result(st, "true", "", Undefined, 0, Len(st.events))
  ELSE IF ~IsNonEmptyString(type)
  THEN Fail(st, "Event type must be a non-empty string when provided")
  ELSE Result(st, "true", "", Undefined, 0, Len(FilterByType(st, type)))

----------------------------------------------------------------------------
(* Audit layer, src/event.js only.                                         *)

\* a prefix test that lets every type through
AnyType(v) == v.t = "string"

\* e.type.startsWith('audit.'): the prefix is always a chunk of its own
IsAuditType(v) == v.t = "string" /\ v.s # <<>> /\ v.s[1] = "audit."

\* createAuditEvent(type, message, metadata = {})
createAuditEvent(st, type, message, metadata) ==
  The({IF Nullish(m.ref)
       THEN Throw(st, "TypeError: Cannot read properties of null (reading 'severity')")
       ELSE LET sev == Get(m.heap, m.ref, "severity")
                src == Get(m.heap, m.ref, "source")
            IN The({createEvent([st EXCEPT !.heap = a.heap], type, message, a.ref)
                    : a \in {Alloc(m.heap,
                               Obj("object",
                                   Merge(Spread(m.heap, m.ref),
                                         Fields(<<<<"severity", IF Truthy(sev) THEN sev ELSE Str(<<"info">>)>>,
                                                  <<"source", IF Truthy(src) THEN src ELSE Str(<<"system">>)>>,
                                                  <<"auditTimestamp", ToISOString(now)>>>>))))}})
       : m \in {DefaultObject(st.heap, metadata)}})

\* getAuditEvents(auditType = null)
getAuditEvents(st, auditType) ==
  IF ~Nullish(auditType) /\ ~IsNonEmptyString(auditType)
  THEN Fail(st, "Audit type must be a non-empty string when provided")
  ELSE LET sel == IF Nullish(auditType)
                  THEN SelectSeq(st.events, LAMBDA a : IsAuditType(st.heap[a].f["type"]))
                  ELSE FilterByType(st, auditType)
           arr == Alloc(st.heap, Obj("array", ArrayFields([i \in 1..Len(sel) |-> Ref(sel[i])])))
       IN Result([st EXCEPT !.heap = arr.heap], "true", "", arr.ref, 0, Len(sel))

\* getAuditEventCount(auditType = null)
getAuditEventCount(st, auditType) ==
  LET r == getAuditEvents(st, auditType) IN
  IF r.ok # "true" THEN r ELSE Result(st, "true", "", Undefined, 0, r.count)

\* new Date(v).getTime(); ok is FALSE for an Invalid Date
ParseDate(v) ==
  CASE v.t = "string" /\ Trim(v.s) = <<"ISO-8601">> -> [ok |-> TRUE, t |-> v.n]
    [] v.t = "number" -> [ok |-> TRUE, t |-> v.n \div 2]
    [] v.t = "null" -> [ok |-> TRUE, t |-> 0]
    [] OTHER -> [ok |-> FALSE, t |-> 0]

\* a range test that leaves the end bound out
InRangeExclusive(eventTime, start, end) ==
  eventTime.ok /\ eventTime.t >= start.t /\ eventTime.t < end.t

\* eventTime >= start && eventTime <= end; a comparison with an Invalid Date is false
InRange(eventTime, start, end) ==
  eventTime.ok /\ eventTime.t >= start.t /\ eventTime.t <= end.t

\* getAuditEventsByTimeRange(startTime, endTime)
getAuditEventsByTimeRange(st, startTime, endTime) ==
  LET start == ParseDate(startTime)
      end == ParseDate(endTime)
  IN IF ~start.ok \/ ~end.ok THEN Fail(st, "Invalid time range provided")
     ELSE IF start.t > end.t THEN Fail(st, "Start time must be before end time")
     ELSE LET sel == SelectSeq(SelectSeq(st.events, LAMBDA a : IsAuditType(st.heap[a].f["type"])),
                               LAMBDA a : InRange(ParseDate(st.heap[a].f["timestamp"]), start, end))
              arr == Alloc(st.heap, Obj("array", ArrayFields([i \in 1..Len(sel) |-> Ref(sel[i])])))
          IN Result([st EXCEPT !.heap = arr.heap], "true", "", arr.ref, 0, Len(sel))

----------------------------------------------------------------------------
(* Poll engagement, src/unnamed/part_000 and part_001.                     *)

\* index of the first rejected field, given which fields are rejected; 0 if none
FirstBad(rejected) ==
  IF \E i \in 1..Len(rejected) : rejected[i]
  THEN CHOOSE i \in 1..Len(rejected) : rejected[i] /\ \A j \in 1..(i - 1) : ~rejected[j]
  ELSE 0

\* the engagementData literal and the createEvent call that follows it;
\* onTypeError is what the caller gets when .trim() is applied to a non-string
TrackValidated(st, payload, onTypeError) ==
  LET h == st.heap
      P(k) == Get(h, payload, k)
      Optional(k) == IF Truthy(P(k)) THEN TrimV(P(k)) ELSE Null
      data == Alloc(h, Obj("object",
                Fields(<<<<"event_type", TrimV(P("event_type"))>>,
                         <<"poll_id", TrimV(P("poll_id"))>>,
                         <<"user_id", TrimV(P("user_id"))>>,
                         <<"previous_choice", Optional("previous_choice")>>,
                         <<"new_choice", TrimV(P("new_choice"))>>,
                         <<"timestamp", TrimV(P("timestamp"))>>,
                         <<"session_id", Optional("session_id")>>>>)))
  IN IF \E k \in {"previous_choice", "session_id"} : Truthy(P(k)) /\ P(k).t # "string"
     THEN onTypeError
     ELSE createEvent([st EXCEPT !.heap = data.heap], Str(<<"poll_engagement">>),
                      Str(<<"Poll", " ", "engagement:", " ">> \o Trim(P("event_type").s)),
                      data.ref)

\* trackPollEngagement(payload)
trackPollEngagement(st, payload) ==
  LET h == st.heap
      guarded == eventModule = "part_001"
      P(k) == Get(h, payload, k)
      required == <<"event_type", "poll_id", "user_id", "new_choice", "timestamp">>
      Missing(k) == ~Truthy(P(k)) \/ P(k).t # "string" \/ Trim(P(k).s) = <<>>
      bad == FirstBad([i \in 1..Len(required) |-> Missing(required[i])])
      BadOptional(k) == ~Nullish(P(k)) /\ P(k).t # "string"
      unexpected == Fail(st, "An unexpected error occurred while tracking poll engagement")
      propagate == Throw(st, "TypeError: trim is not a function")
  IN IF ~Truthy(payload) \/ TypeOf(payload) # "object"
     THEN Fail(st, "Payload must be an object")
     ELSE IF guarded /\ IsArray(h, payload)
     THEN Fail(st, "Payload must be an object, not an array")
     ELSE IF bad # 0
     THEN Fail(st, required[bad] \o " is required and must be a non-empty string")
     ELSE IF guarded /\ BadOptional("previous_choice")
     THEN Fail(st, "previous_choice must be a string when provided")
     ELSE IF guarded /\ BadOptional("session_id")
     THEN Fail(st, "session_id must be a string when provided")
     ELSE IF ~ParseDate(TrimV(P("timestamp"))).ok
     THEN Fail(st, IF guarded
                   THEN "Invalid timestamp format. Must be a valid ISO 8601 date string"
                   ELSE "Invalid timestamp format")
     ELSE IF guarded /\ StrLen(Trim(P("event_type").s)) > 100
     THEN Fail(st, "event_type is too long (maximum 100 characters)")
     ELSE IF guarded /\ StrLen(Trim(P("poll_id").s)) > 255
     THEN Fail(st, "poll_id is too long (maximum 255 characters)")
     ELSE IF guarded /\ StrLen(Trim(P("user_id").s)) > 255
     THEN Fail(st, "user_id is too long (maximum 255 characters)")
     ELSE IF guarded THEN TrackValidated(st, payload, unexpected)
     ELSE TrackValidated(st, payload, propagate)

\* the filtering and copying part of getPollEngagementEvents
PollQuery(st, filters) ==
  LET h == st.heap
      Meta(a, k) == Get(h, h[a].f["metadata"], k)
      Keep(a, k) == ~Truthy(Get(h, filters, k)) \/ Meta(a, k) = Get(h, filters, k)
      sel == SelectSeq(st.events,
               LAMBDA a : /\ h[a].f["type"] = Str(<<"poll_engagement">>)
                          /\ Keep(a, "poll_id") /\ Keep(a, "user_id") /\ Keep(a, "event_type"))
      arr == Alloc(h, Obj("array", ArrayFields([i \in 1..Len(sel) |-> Ref(sel[i])])))
      c == JSONClone(arr.heap, arr.ref.n)
  IN [ok |-> c.ok, res |-> Result([st EXCEPT !.heap = c.heap], "true", "", c.ref, 0, Len(sel))]

\* getPollEngagementEvents(filters = {})
getPollEngagementEvents(st, filters) ==
  LET h == st.heap
      guarded == eventModule = "part_001"
      F(k) == Get(h, filters, k)
      BadFilter(k) == ~Nullish(F(k)) /\ ~IsNonEmptyString(F(k))
      bad == FirstBad(<<BadFilter("poll_id"), BadFilter("user_id"), BadFilter("event_type")>>)
      q == PollQuery(st, filters)
  IN IF guarded /\ ~Nullish(filters) /\ (TypeOf(filters) # "object" \/ IsArray(h, filters))
     THEN Fail(st, "Filters must be an object")
     ELSE IF guarded /\ ~Nullish(filters) /\ bad # 0
     THEN Fail(st, <<"poll_id", "user_id", "event_type">>[bad]
                     \o " filter must be a non-empty string when provided")
     ELSE IF filters.t = "null"
     THEN IF guarded
          THEN Fail(st, "An unexpected error occurred while retrieving poll engagement events")
          ELSE Throw(st, "TypeError: Cannot read properties of null (reading 'poll_id')")
     ELSE IF q.ok THEN q.res
     ELSE IF guarded THEN Fail(st, "Failed to serialize poll engagement events")
     ELSE Throw(st, "TypeError: Converting circular structure to JSON")

----------------------------------------------------------------------------
(* Order management, src/unnamed/part_003.  Every function body is one     *)
(* try block: an exception thrown by the event module is caught here, but  *)
(* what the event module did before throwing stays done.                   *)

Caught(r, err) == IF r.ok = "throw" THEN Fail(r.st, err) ELSE r

\* a status set from which the closing statuses are missing
OpenStatuses == {[t |-> "string", s |-> <<"pending">>, n |-> 0, f |-> <<>>],
                 [t |-> "string", s |-> <<"processing">>, n |-> 0, f |-> <<>>]}

validStatuses == {Str(<<"pending">>), Str(<<"processing">>), Str(<<"fulfilled">>), Str(<<"cancelled">>)}

\* createOrder(orderData)
createOrder(st, orderData) ==
  LET h == st.heap
      O(k) == Get(h, orderData, k)
      required == <<"order_id", "customer_id", "items", "total_amount">>
      Absent(k) == Nullish(O(k))
      bad == FirstBad([i \in 1..Len(required) |-> Absent(required[i])])
      status == IF Truthy(O("status")) THEN O("status") ELSE Str(<<"pending">>)
      metadata == Alloc(h, Obj("object",
                    Fields(<<<<"order_id", TrimV(O("order_id"))>>,
                             <<"customer_id", TrimV(O("customer_id"))>>,
                             <<"items", O("items")>>,
                             <<"total_amount", O("total_amount")>>,
                             <<"status", status>>,
                             <<"created_at", ToISOString(now)>>>>)))
  IN IF ~Truthy(orderData) \/ TypeOf(orderData) # "object"
     THEN Fail(st, "Order data must be an object")
     ELSE IF IsArray(h, orderData)
     THEN Fail(st, "Order data must be an object, not an array")
     ELSE IF bad # 0 THEN Fail(st, required[bad] \o " is required")
     ELSE IF ~IsNonEmptyString(O("order_id"))
     THEN Fail(st, "order_id must be a non-empty string")
     ELSE IF ~IsNonEmptyString(O("customer_id"))
     THEN Fail(st, "customer_id must be a non-empty string")
     ELSE IF ~IsArray(h, O("items")) \/ DOMAIN h[O("items").n].f = {}
     THEN Fail(st, "items must be a non-empty array")
     ELSE IF O("total_amount").t # "number" \/ O("total_amount").n < 0
     THEN Fail(st, "total_amount must be a non-negative number")
     ELSE IF status.t # "string" \/ status \notin validStatuses
     THEN Fail(st, "status must be one of: pending, processing, fulfilled, cancelled")
     ELSE Caught(createEvent([st EXCEPT !.heap = metadata.heap], Str(<<"order_created">>),
                             Str(<<"Order", " ", "created:", " ">> \o Trim(O("order_id").s)),
                             metadata.ref),
                 "An unexpected error occurred while creating the order")

\* `${v}` in a template literal: the text of a string, String(v) otherwise
TemplateText(v) == IF v.t = "string" THEN v.s ELSE <<"String(", v.t, ")">>

\* updateOrderStatus(orderId, newStatus, additionalData = {})
updateOrderStatus(st, orderId, newStatus, additionalData) ==
  LET d == DefaultObject(st.heap, additionalData)
      merged == Merge(Fields(<<<<"order_id", TrimV(orderId)>>,
                               <<"new_status", newStatus>>,
                               <<"updated_at", ToISOString(now)>>>>),
                      Spread(d.heap, d.ref))
      metadata == Alloc(d.heap, Obj("object", merged))
  IN IF ~IsNonEmptyString(orderId) THEN Fail(st, "orderId must be a non-empty string")
     ELSE IF newStatus.t # "string" \/ newStatus \notin validStatuses
     THEN Fail(st, "newStatus must be one of: pending, processing, fulfilled, cancelled")
     ELSE IF TypeOf(d.ref) # "object" \/ d.ref.t = "null" \/ IsArray(d.heap, d.ref)
     THEN Fail(st, "additionalData must be an object")
     ELSE Caught(createEvent([st EXCEPT !.heap = metadata.heap], Str(<<"order_updated">>),
                             Str(<<"Order", " ", "status", " ", "updated:", " ">>
                                   \o TemplateText(merged["order_id"])
                                   \o <<" ", "->", " ">> \o newStatus.s),
                             metadata.ref),
                 "An unexpected error occurred while updating the order")

\* cancelOrder(orderId, reason = '')
cancelOrder(st, orderId, reason) ==
  LET why == IF reason.t = "undefined" THEN Str(<<>>) ELSE reason
      metadata == Alloc(st.heap, Obj("object",
                    Fields(<<<<"order_id", TrimV(orderId)>>,
                             <<"reason", TrimV(why)>>,
                             <<"cancelled_at", ToISOString(now)>>>>)))
  IN IF ~IsNonEmptyString(orderId) THEN Fail(st, "orderId must be a non-empty string")
     ELSE IF why.t # "string" THEN Fail(st, "reason must be a string")
     ELSE Caught(createEvent([st EXCEPT !.heap = metadata.heap], Str(<<"order_cancelled">>),
                             Str(<<"Order", " ", "cancelled:", " ">> \o Trim(orderId.s)),
                             metadata.ref),
                 "An unexpected error occurred while cancelling the order")

\* fulfillOrder(orderId, fulfillmentData = {})
fulfillOrder(st, orderId, fulfillmentData) ==
  LET d == DefaultObject(st.heap, fulfillmentData)
      merged == Merge(Fields(<<<<"order_id", TrimV(orderId)>>,
                               <<"fulfilled_at", ToISOString(now)>>>>),
                      Spread(d.heap, d.ref))
      metadata == Alloc(d.heap, Obj("object", merged))
  IN IF ~IsNonEmptyString(orderId) THEN Fail(st, "orderId must be a non-empty string")
     ELSE IF TypeOf(d.ref) # "object" \/ d.ref.t = "null" \/ IsArray(d.heap, d.ref)
     THEN Fail(st, "fulfillmentData must be an object")
     ELSE Caught(createEvent([st EXCEPT !.heap = metadata.heap], Str(<<"order_fulfilled">>),
                             Str(<<"Order", " ", "fulfilled:", " ">> \o TemplateText(merged["order_id"])),
                             metadata.ref),
                 "An unexpected error occurred while fulfilling the order")

\* the order types together with a type the order functions never log
TrackedEventTypes ==
  {Str(<<"order_created">>), Str(<<"order_updated">>), Str(<<"order_cancelled">>),
   Str(<<"order_fulfilled">>), Str(<<"poll_engagement">>)}

orderEventTypes ==
  {Str(<<"order_created">>), Str(<<"order_updated">>), Str(<<"order_cancelled">>), Str(<<"order_fulfilled">>)}

\* the elements of the array at address a, in index order
Elements(h, a) == [i \in 1..Cardinality(DOMAIN h[a].f) |-> h[a].f[Idx(i)].n]

\* getOrderEvents(filters = {})
getOrderEvents(st, filters) ==
  LET F(k) == Get(st.heap, filters, k)
      BadFilter(k) == ~Nullish(F(k)) /\ ~IsNonEmptyString(F(k))
      bad == FirstBad(<<BadFilter("order_id"), BadFilter("customer_id"), BadFilter("status")>>)
      all == getEvents(st, Null)
      h == all.st.heap
      Meta(a, k) == Get(h, h[a].f["metadata"], k)
      Keep(a) ==
        /\ h[a].f["type"] \in orderEventTypes
        /\ ~Truthy(F("order_id")) \/ Meta(a, "order_id") = F("order_id")
        /\ ~Truthy(F("customer_id")) \/ Meta(a, "customer_id") = F("customer_id")
        /\ \/ ~Truthy(F("status"))
           \/ Meta(a, "status") = F("status")
           \/ Meta(a, "new_status") = F("status")
      sel == SelectSeq(Elements(h, all.ret.n), Keep)
      arr == Alloc(h, Obj("array", ArrayFields([i \in 1..Len(sel) |-> Ref(sel[i])])))
  IN IF ~Nullish(filters) /\ (TypeOf(filters) # "object" \/ IsArray(st.heap, filters))
     THEN Fail(st, "Filters must be an object")
     ELSE IF ~Nullish(filters) /\ bad # 0
     THEN Fail(st, <<"order_id", "customer_id", "status">>[bad]
                     \o " filter must be a non-empty string when provided")
     ELSE IF all.ok = "false" THEN all
     ELSE IF all.ok = "throw" \/ filters.t = "null"
     THEN Fail(st, "An unexpected error occurred while retrieving order events")
     ELSE Result([st EXCEPT !.heap = arr.heap], "true", "", arr.ref, 0, Len(sel))

----------------------------------------------------------------------------
(* Login, src/login.js and the second half of src/unnamed/part_004.  The   *)
(* two revisions run the same checks; part_004 also writes audit events.   *)

users ==
  <<[username |-> <<"admin">>, password |-> <<"admin123">>, role |-> <<"administrator">>],
    [username |-> <<"user">>, password |-> <<"user123">>, role |-> <<"user">>],
    [username |-> <<"demo">>, password |-> <<"demo123">>, role |-> <<"user">>]>>

MaxCredentialLength == 255

\* chunks holding a character outside [a-zA-Z0-9._-]
InvalidChunks == {"bad!name", "o'brien"}

\* a pattern that lets every non-empty name through
PermissivePattern(s) == s # <<>>

\* /^[a-zA-Z0-9._-]+$/.test(s)
MatchesUsernamePattern(s) ==
  s # <<>> /\ \A i \in 1..Len(s) : s[i] \notin WhiteSpace /\ s[i] \notin InvalidChunks

\* an error text that tells an unknown user from a wrong password
LeakyNotFoundError == "User not found"

\* the error returned when no user has the name, and when the password differs
NotFoundError == "Invalid username or password"
WrongPasswordError == "Invalid username or password"

\* the whole user record spread into the metadata, password included
WholeUserMetadata(user) ==
  <<<<"username", Str(user.username)>>,
    <<"password", Str(user.password)>>,
    <<"role", Str(user.role)>>,
    <<"severity", Str(<<"info">>)>>,
    <<"source", Str(<<"login">>)>>>>

\* { username: user.username, role: user.role, severity: 'info', source: 'login' }
SuccessMetadata(user) ==
  <<<<"username", Str(user.username)>>,
    <<"role", Str(user.role)>>,
    <<"severity", Str(<<"info">>)>>,
    <<"source", Str(<<"login">>)>>>>

\* createAuditEvent(type, message, { ...fields }) as login calls it
Audit(st, type, message, pairs) ==
  IF loginModule = "login_js" THEN st
  ELSE The({createAuditEvent([st EXCEPT !.heap = m.heap], Str(type), Str(message), m.ref).st
            : m \in {Alloc(st.heap, Obj("object", Fields(pairs)))}})

\* login(username, password)
login(st, username, password) ==
  LET attempt(u) == <<<<"username", u>>, <<"severity", Str(<<"info">>)>>, <<"source", Str(<<"login">>)>>>>
      raw == attempt(IF Truthy(username) THEN username ELSE Str(<<"undefined">>))
      u == TrimV(username)
      p == TrimV(password)
      trimmed == attempt(u)
      warning == <<"severity", Str(<<"warning">>)>>
      Reason(r) == <<"reason", Str(<<r>>)>>
      hit == SelectSeq(users, LAMBDA x : Str(x.username) = u)
  IN IF Nullish(username) \/ username.t # "string"
     THEN Fail(Audit(st, <<"audit.", "login.failure">>,
                     <<"Login", " ", "failed:", " ", "Invalid", " ", "username", " ", "type">>,
                     raw \o <<Reason("invalid_username_type")>>),
               "Username is required and must be a string")
     ELSE IF Nullish(password) \/ password.t # "string"
     THEN Fail(Audit(st, <<"audit.", "login.failure">>,
                     <<"Login", " ", "failed:", " ", "Invalid", " ", "password", " ", "type">>,
                     raw \o <<Reason("invalid_password_type")>>),
               "Password is required and must be a string")
     ELSE IF StrLen(username.s) > MaxCredentialLength
     THEN Fail(Audit(st, <<"audit.", "security.suspicious">>,
                     <<"Suspicious", " ", "activity:", " ", "Username", " ", "exceeds", " ",
                       "maximum", " ", "length">>,
                     raw \o <<Reason("username_too_long"),
                               <<"length", Num(StrLen(username.s))>>, warning>>),
               "Username is too long (maximum 255 characters)")
     ELSE IF StrLen(password.s) > MaxCredentialLength
     THEN Fail(Audit(st, <<"audit.", "security.suspicious">>,
                     <<"Suspicious", " ", "activity:", " ", "Password", " ", "exceeds", " ",
                       "maximum", " ", "length">>,
                     raw \o <<Reason("password_too_long"),
                               <<"length", Num(StrLen(password.s))>>, warning>>),
               "Password is too long (maximum 255 characters)")
     ELSE IF u.s = <<>>
     THEN Fail(Audit(st, <<"audit.", "login.failure">>,
                     <<"Login", " ", "failed:", " ", "Empty", " ", "username">>,
                     trimmed \o <<Reason("empty_username")>>),
               "Username cannot be empty")
     ELSE IF p.s = <<>>
     THEN Fail(Audit(st, <<"audit.", "login.failure">>,
                     <<"Login", " ", "failed:", " ", "Empty", " ", "password">>,
                     trimmed \o <<Reason("empty_password")>>),
               "Password cannot be empty")
     ELSE IF ~MatchesUsernamePattern(u.s)
     THEN Fail(Audit(st, <<"audit.", "security.suspicious">>,
                     <<"Suspicious", " ", "activity:", " ", "Username", " ", "contains", " ",
                       "invalid", " ", "characters">>,
                     trimmed \o <<Reason("invalid_characters"), warning>>),
               "Username contains invalid characters (only letters, numbers, dots, hyphens, and underscores allowed)")
     ELSE The({
             IF hit = <<>>
             THEN Fail(Audit(tried, <<"audit.", "login.failure">>,
                             <<"Login", " ", "failed:", " ", "User", " ", "not", " ", "found">>,
                             trimmed \o <<Reason("user_not_found"), warning>>),
                       NotFoundError)
             ELSE IF Str(hit[1].password) # p
             THEN Fail(Audit(tried, <<"audit.", "login.failure">>,
                             <<"Login", " ", "failed:", " ", "Incorrect", " ", "password">>,
                             trimmed \o <<Reason("incorrect_password"), warning>>),
                       WrongPasswordError)
             ELSE [Result(Audit(tried, <<"audit.", "login.success">>,
                                <<"User", " ", "logged", " ", "in", " ", "successfully">>,
                                SuccessMetadata(hit[1])),
                          "true", "", Undefined, 0, 0)
                   EXCEPT !.user = [username |-> Str(hit[1].username), role |-> Str(hit[1].role)]]
             : tried \in {Audit(st, <<"audit.", "login.attempt">>,
                                <<"User", " ", "login", " ", "attempt">>, trimmed)}})

\* guestLogin(), src/login.js: `guest_${Date.now()}_${randomBytes(4).toString('hex')}`
guestLogin(st, randomBytes) ==
  [Result(st, "true", "", Undefined, 0, 0)
   EXCEPT !.user = [username |-> Val("string", <<"guest_", "Date.now()", "_", randomBytes>>, now),
                    role |-> Str(<<"guest">>)]]

----------------------------------------------------------------------------
(* The caller: the arguments it builds and what it does with references.   *)

GoodTypes == {Str(<<" ", "login", "\t">>), Str(<<"audit.", "x">>)}
BadTypes == {Str(<<" ">>), Num(42)}
GoodMessage == Str(<<" ", "hello", " ", "world", " ">>)
BadMessages == {Str(<<"\t">>), Null}

MetaTemplates == {"undefined", "null", "string", "array", "flat", "func", "cyclic"}
NestedTemplates == {"nested", "list"}

CreateInputs ==
  [type : GoodTypes, message : {GoodMessage}, tmpl : MetaTemplates]
    \cup [type : BadTypes, message : {GoodMessage}, tmpl : {"flat", "cyclic"}]
    \cup [type : {Str(<<"audit.", "x">>)}, message : BadMessages, tmpl : {"flat", "cyclic"}]
    \cup [type : BadTypes, message : BadMessages, tmpl : {"null"}]

FilterInputs ==
  {Undefined, Null, Str(<<"login">>), Str(<<" ", "audit.", "x">>), Str(<<" ">>), Num(1)}

IdInputs == {Num(1), Num(2), Num(3), Num(0), Num(-1), Half(3), Str(<<"1">>), Null}

\* the object literal the caller writes for a template
MakeMeta(h, tmpl) ==
  LET flat == [k \in {"k"} |-> Str(<<"a">>)] IN
  CASE tmpl = "undefined" -> [heap |-> h, ref |-> Undefined]
    [] tmpl = "null" -> [heap |-> h, ref |-> Null]
    [] tmpl = "string" -> [heap |-> h, ref |-> Str(<<"x">>)]
    [] tmpl = "array" -> Alloc(h, Obj("array", ArrayFields(<<Str(<<"x">>)>>)))
    [] tmpl = "flat" -> Alloc(h, Obj("object", flat))
    [] tmpl = "override" ->
         Alloc(h, Obj("object", Fields(<<<<"order_id", Str(<<"o9">>)>>,
                                         <<"new_status", Str(<<"shipped">>)>>>>)))
    [] tmpl = "nested" ->
         LET c == Alloc(h, Obj("object", [k \in {"x"} |-> Str(<<"b">>)]))
         IN Alloc(c.heap, Obj("object", Put(flat, "n", c.ref)))
    [] tmpl = "list" ->
         LET c == Alloc(h, Obj("array", ArrayFields(<<Str(<<"b">>)>>)))
         IN Alloc(c.heap, Obj("object", Put(flat, "n", c.ref)))
    [] tmpl = "func" -> Alloc(h, Obj("object", Put(flat, "fn", Fn)))
    [] tmpl = "custom" ->
         Alloc(h, Obj("object", Put(Put(flat, "severity", Str(<<"high">>)), "source", Str(<<"api">>))))
    [] tmpl = "falsy" ->
         Alloc(h, Obj("object", Put(Put(flat, "severity", Str(<<>>)), "source", Num(0))))
    [] OTHER -> Alloc(h, Obj("object", Put(flat, "self", Ref(Len(h) + 1))))

\* the call as the caller saw it: arguments, outcome and the payload's value
Last(op, res, a1, a2, tmpl) ==
  [op |-> op, ok |-> res.ok, err |-> res.err, id |-> res.id, count |-> res.count,
   user |-> res.user, view |-> View(res.st.heap, res.ret, ViewDepth),
   a1 |-> a1, a2 |-> a2, tmpl |-> tmpl]

NoCall(op) ==
  [op |-> op, ok |-> "", err |-> "", id |-> 0, count |-> 0,
   user |-> NoUser, view |-> Undefined, a1 |-> Undefined, a2 |-> Undefined, tmpl |-> ""]

\* the call returns: the store is updated; a and r are the references the caller keeps
Return(res, a, r, l) ==
  \E g \in {Collect(res.st.heap, res.st.events, a, r)} :
  /\ heap' = g.heap
  /\ events' = g.events
  /\ arg' = g.arg
  /\ ret' = g.ret
  /\ eventIdCounter' = res.st.ctr
  /\ issued' = res.st.issued
  /\ last' = l
  /\ generation' = IF l.op = "clearEvents" /\ generation < MaxGeneration
                   THEN generation + 1 ELSE generation
  /\ UNCHANGED <<eventModule, loginModule, now>>

\* the caller is between two calls
Idle == last.op = "none"

CanCreate(n) == Idle /\ Len(events) + n <= MaxEvents /\ eventIdCounter <= MaxCounter

\* the caller has looked at the result and goes on
Resume ==
  /\ ~Idle
  /\ last' = NoCall("none")
  /\ UNCHANGED <<eventModule, loginModule, heap, events, eventIdCounter, now, arg, ret, issued, generation>>

\* calls whose caller drops the argument and the result at once

CallCreateEvent ==
  \E in \in CreateInputs :
    /\ CanCreate(1)
    /\ \E m \in {MakeMeta(heap, in.tmpl)} :
        \E res \in {createEvent([Store EXCEPT !.heap = m.heap], in.type, in.message, m.ref)} :
            Return(res, Undefined, Undefined, Last("createEvent", res, in.type, in.message, in.tmpl))

CallGetEvents ==
  \E type \in FilterInputs :
    /\ Idle
    /\ \E res \in {getEvents(Store, type)} :
           Return(res, Undefined, Undefined, Last("getEvents", res, type, Undefined, ""))

CallGetEventById ==
  \E id \in IdInputs :
    /\ Idle
    /\ \E res \in {getEventById(Store, id)} :
           Return(res, Undefined, Undefined, Last("getEventById", res, id, Undefined, ""))

CallGetEventCount ==
  \E type \in FilterInputs :
    /\ Idle
    /\ \E res \in {getEventCount(Store, type)} :
           Return(res, Undefined, Undefined, Last("getEventCount", res, type, Undefined, ""))

CallClearEvents ==
  /\ Idle
  /\ \E res \in {clearEvents(Store)} :
         Return(res, Undefined, Undefined, Last("clearEvents", res, Undefined, Undefined, ""))

\* calls whose caller keeps the object it passed and the payload it got back

KeepCreateEvent ==
  \E tmpl \in NestedTemplates \cup {"flat"} :
    /\ CanCreate(1)
    /\ \E m \in {MakeMeta(heap, tmpl)} :
        \E res \in {createEvent([Store EXCEPT !.heap = m.heap], Str(<<"login">>), GoodMessage, m.ref)} :
            Return(res, m.ref, res.ret, Last("createEvent", res, Str(<<"login">>), GoodMessage, tmpl))

KeepGetEvents ==
  /\ Idle
  /\ \E res \in {getEvents(Store, Null)} :
         Return(res, arg, res.ret, Last("getEvents", res, Null, Undefined, ""))

KeepGetEventById ==
  \E id \in {Num(1), Num(2)} :
    /\ Idle
    /\ \E res \in {getEventById(Store, id)} :
           Return(res, arg, res.ret, Last("getEventById", res, id, Undefined, ""))

\* the properties a caller overwrites, and with what
MutKeys == {"id", "k", "x", "0"}
MutVal(k) == IF k = "id" THEN Num(1) ELSE Str(<<"mutated">>)

Reach(v) == {a \in 1..Len(heap) : InSeq(a, Trav(heap, RootOf(v), <<>>))}

Mutate(root, op) ==
  \E a \in Reach(root) : \E k \in (DOMAIN heap[a].f) \cap MutKeys :
    /\ Idle
    /\ heap[a].f[k] # MutVal(k)
    /\ heap' = [heap EXCEPT ![a].f[k] = MutVal(k)]
    /\ last' = NoCall(op)
    /\ UNCHANGED <<eventModule, loginModule, events, eventIdCounter, now, arg, ret, issued, generation>>

\* the caller writes into the object it passed in
MutateArgument == Mutate(arg, "mutateArgument")

\* the caller writes into the object it got back
MutateReturned == Mutate(ret, "mutateReturned")

\* audit layer

AuditTemplates == {"undefined", "null", "array", "flat", "custom", "falsy"}
AuditTypes == {Str(<<"audit.", "x">>), Str(<<"login">>), Num(42)}

CallCreateAuditEvent ==
  \E type \in AuditTypes, tmpl \in AuditTemplates :
    /\ eventModule = "event_js"
    /\ CanCreate(1)
    /\ \E m \in {MakeMeta(heap, tmpl)} :
        \E res \in {createAuditEvent([Store EXCEPT !.heap = m.heap], type, GoodMessage, m.ref)} :
            Return(res, Undefined, Undefined, Last("createAuditEvent", res, type, GoodMessage, tmpl))

CallGetAuditEvents ==
  \E type \in FilterInputs :
    /\ eventModule = "event_js"
    /\ Idle
    /\ \E res \in {getAuditEvents(Store, type)} :
           Return(res, Undefined, Undefined, Last("getAuditEvents", res, type, Undefined, ""))

CallGetAuditEventCount ==
  \E type \in FilterInputs :
    /\ eventModule = "event_js"
    /\ Idle
    /\ \E res \in {getAuditEventCount(Store, type)} :
           Return(res, Undefined, Undefined, Last("getAuditEventCount", res, type, Undefined, ""))

TimeInputs == {ToISOString(0), ToISOString(1), Str(<<"yesterday">>)}

CallGetAuditEventsByTimeRange ==
  \E startTime \in TimeInputs, endTime \in TimeInputs :
    /\ eventModule = "event_js"
    /\ Idle
    /\ \E res \in {getAuditEventsByTimeRange(Store, startTime, endTime)} :
           Return(res, Undefined, Undefined,
                 Last("getAuditEventsByTimeRange", res, startTime, endTime, ""))

\* poll engagement

PollTemplates == {"valid", "padded", "noPoll", "badTime", "numPrev", "null", "array"}

\* the payload literal the caller writes for a template
MakePayload(h, tmpl) ==
  LET valid == Fields(<<<<"event_type", Str(<<"vote_cast">>)>>,
                        <<"poll_id", Str(<<"p1">>)>>,
                        <<"user_id", Str(<<"u1">>)>>,
                        <<"new_choice", Str(<<"yes">>)>>,
                        <<"timestamp", ToISOString(0)>>>>)
  IN CASE tmpl = "null" -> [heap |-> h, ref |-> Null]
       [] tmpl = "array" -> Alloc(h, Obj("array", ArrayFields(<<Str(<<"x">>)>>)))
       [] tmpl = "valid" -> Alloc(h, Obj("object", valid))
       [] tmpl = "padded" ->
            Alloc(h, Obj("object",
                         Merge(valid, Fields(<<<<"poll_id", Str(<<" ", "p1", " ">>)>>,
                                               <<"previous_choice", Str(<<"no", " ">>)>>,
                                               <<"session_id", Str(<<"s1">>)>>>>))))
       [] tmpl = "noPoll" -> Alloc(h, Obj("object", [k \in (DOMAIN valid) \ {"poll_id"} |-> valid[k]]))
       [] tmpl = "badTime" -> Alloc(h, Obj("object", Put(valid, "timestamp", Str(<<"yesterday">>))))
       [] OTHER -> Alloc(h, Obj("object", Put(valid, "previous_choice", Num(5))))

CallTrackPollEngagement ==
  \E tmpl \in PollTemplates :
    /\ eventModule # "event_js"
    /\ CanCreate(1)
    /\ \E m \in {MakePayload(heap, tmpl)} :
        \E res \in {trackPollEngagement([Store EXCEPT !.heap = m.heap], m.ref)} :
            Return(res, Undefined, Undefined, Last("trackPollEngagement", res, Undefined, Undefined, tmpl))

PollFilterTemplates == {"undefined", "null", "string", "byPoll", "paddedPoll", "blank"}

\* the filters literal the caller writes for a template
MakeFilters(h, tmpl) ==
  CASE tmpl = "undefined" -> [heap |-> h, ref |-> Undefined]
    [] tmpl = "null" -> [heap |-> h, ref |-> Null]
    [] tmpl = "string" -> [heap |-> h, ref |-> Str(<<"p1">>)]
    [] tmpl = "byPoll" -> Alloc(h, Obj("object", Fields(<<<<"poll_id", Str(<<"p1">>)>>>>)))
    [] tmpl = "byOrder" -> Alloc(h, Obj("object", Fields(<<<<"order_id", Str(<<"o1">>)>>>>)))
    [] tmpl = "byStatus" -> Alloc(h, Obj("object", Fields(<<<<"status", Str(<<"fulfilled">>)>>>>)))
    [] tmpl = "byCustomer" -> Alloc(h, Obj("object", Fields(<<<<"customer_id", Str(<<"c1">>)>>>>)))
    [] tmpl = "byBoth" -> Alloc(h, Obj("object", Fields(<<<<"order_id", Str(<<"o1">>)>>,
                                                          <<"status", Str(<<"processing">>)>>>>)))
    [] tmpl = "paddedOrder" -> Alloc(h, Obj("object", Fields(<<<<"order_id", Str(<<" ", "o1", " ">>)>>>>)))
    [] tmpl = "paddedPoll" -> Alloc(h, Obj("object", Fields(<<<<"poll_id", Str(<<" ", "p1", " ">>)>>>>)))
    [] OTHER -> Alloc(h, Obj("object", Fields(<<<<"poll_id", Str(<<" ">>)>>,
                                               <<"order_id", Str(<<" ">>)>>>>)))

CallGetPollEngagementEvents ==
  \E tmpl \in PollFilterTemplates :
    /\ eventModule # "event_js"
    /\ Idle
    /\ \E m \in {MakeFilters(heap, tmpl)} :
        \E res \in {getPollEngagementEvents([Store EXCEPT !.heap = m.heap], m.ref)} :
            Return(res, Undefined, Undefined, Last("getPollEngagementEvents", res, Undefined, Undefined, tmpl))

\* order management

OrderTemplates == {"valid", "padded", "noItems", "negative", "shipped", "cyclic", "null"}

\* the orderData literal the caller writes for a template
MakeOrder(h, tmpl) ==
  LET items == Alloc(h, Obj("array", ArrayFields(<<Str(<<"widget">>)>>)))
      valid == Fields(<<<<"order_id", Str(<<"o1">>)>>,
                        <<"customer_id", Str(<<"c1">>)>>,
                        <<"items", items.ref>>,
                        <<"total_amount", Num(10)>>>>)
      loop == Alloc(h, Obj("array", ArrayFields(<<Ref(Len(h) + 1)>>)))
  IN CASE tmpl = "null" -> [heap |-> h, ref |-> Null]
       [] tmpl = "array" -> items
       [] tmpl = "valid" -> Alloc(items.heap, Obj("object", valid))
       [] tmpl = "padded" ->
            Alloc(items.heap, Obj("object",
                    Merge(valid, Fields(<<<<"order_id", Str(<<" ", "o1", " ">>)>>,
                                          <<"status", Str(<<"fulfilled">>)>>>>))))
       [] tmpl = "noItems" ->
            Alloc(h, Obj("object", [k \in (DOMAIN valid) \ {"items"} |-> valid[k]]))
       [] tmpl = "negative" -> Alloc(items.heap, Obj("object", Put(valid, "total_amount", Num(-1))))
       [] tmpl = "shipped" -> Alloc(items.heap, Obj("object", Put(valid, "status", Str(<<"shipped">>))))
       [] OTHER -> Alloc(loop.heap, Obj("object", Put(valid, "items", loop.ref)))

CallCreateOrder ==
  \E tmpl \in OrderTemplates :
    /\ CanCreate(1)
    /\ \E m \in {MakeOrder(heap, tmpl)} :
        \E res \in {createOrder([Store EXCEPT !.heap = m.heap], m.ref)} :
            Return(res, Undefined, Undefined, Last("createOrder", res, Undefined, Undefined, tmpl))

OrderIdInputs == {Str(<<" ", "o1">>), Str(<<" ">>), Num(7)}
StatusInputs == {Str(<<"processing">>), Str(<<"fulfilled">>), Str(<<"cancelled">>), Str(<<"shipped">>)}
DataTemplates == {"undefined", "array", "flat", "override", "cyclic"}

CallUpdateOrderStatus ==
  \E orderId \in OrderIdInputs, newStatus \in StatusInputs, tmpl \in DataTemplates :
    /\ CanCreate(1)
    /\ \E m \in {MakeMeta(heap, tmpl)} :
        \E res \in {updateOrderStatus([Store EXCEPT !.heap = m.heap], orderId, newStatus, m.ref)} :
            Return(res, Undefined, Undefined, Last("updateOrderStatus", res, orderId, newStatus, tmpl))

ReasonInputs == {Undefined, Str(<<" ", "late", " ">>), Num(3)}

CallCancelOrder ==
  \E orderId \in OrderIdInputs, reason \in ReasonInputs :
    /\ CanCreate(1)
    /\ \E res \in {cancelOrder(Store, orderId, reason)} :
           Return(res, Undefined, Undefined, Last("cancelOrder", res, orderId, reason, ""))

CallFulfillOrder ==
  \E orderId \in OrderIdInputs, tmpl \in DataTemplates :
    /\ CanCreate(1)
    /\ \E m \in {MakeMeta(heap, tmpl)} :
        \E res \in {fulfillOrder([Store EXCEPT !.heap = m.heap], orderId, m.ref)} :
            Return(res, Undefined, Undefined, Last("fulfillOrder", res, orderId, Undefined, tmpl))

OrderFilterTemplates ==
  {"undefined", "null", "string", "byOrder", "byStatus", "byCustomer", "byBoth", "paddedOrder", "blank"}

CallGetOrderEvents ==
  \E tmpl \in OrderFilterTemplates :
    /\ Idle
    /\ \E m \in {MakeFilters(heap, tmpl)} :
        \E res \in {getOrderEvents([Store EXCEPT !.heap = m.heap], m.ref)} :
            Return(res, Undefined, Undefined, Last("getOrderEvents", res, Undefined, Undefined, tmpl))

\* a producer call followed at once by the query for the id just passed in;
\* a1 is that id, and the result is the query's
RoundTripTemplates == {"valid", "padded"}

RoundTripOrder ==
  \E tmpl \in RoundTripTemplates :
    /\ CanCreate(1)
    /\ \E m \in {MakeOrder(heap, tmpl)} :
        \E made \in {createOrder([Store EXCEPT !.heap = m.heap], m.ref)} :
        \E s \in {Get(m.heap, m.ref, "order_id")} :
        \E f \in {Alloc(made.st.heap, Obj("object", Fields(<<<<"order_id", s>>>>)))} :
        \E res \in {getOrderEvents([made.st EXCEPT !.heap = f.heap], f.ref)} :
            Return(res, Undefined, Undefined, Last("createOrderThenQuery", res, s, Undefined, tmpl))

RoundTripPoll ==
  \E tmpl \in RoundTripTemplates :
    /\ eventModule # "event_js"
    /\ CanCreate(1)
    /\ \E m \in {MakePayload(heap, tmpl)} :
        \E made \in {trackPollEngagement([Store EXCEPT !.heap = m.heap], m.ref)} :
        \E s \in {Get(m.heap, m.ref, "poll_id")} :
        \E f \in {Alloc(made.st.heap, Obj("object", Fields(<<<<"poll_id", s>>>>)))} :
        \E res \in {getPollEngagementEvents([made.st EXCEPT !.heap = f.heap], f.ref)} :
            Return(res, Undefined, Undefined, Last("trackThenQuery", res, s, Undefined, tmpl))

\* login

UsernameInputs ==
  {Str(<<" ", "admin", " ">>), Str(<<"user">>), Str(<<"nobody">>), Str(<<"bad!name">>),
   Str(<<" ">>), Str(<<"x{255}">>), Str(<<"x{256}">>),
   Str(<<" {250}", "admin">>), Str(<<" {250}", " ", "admin">>), Null}
PasswordInputs ==
  {Str(<<"admin123">>), Str(<<"wrong">>), Str(<<>>), Num(5),
   Str(<<"admin123", " {247}">>), Str(<<"admin123", " ", " {247}">>)}

CallLogin ==
  \E username \in UsernameInputs, password \in PasswordInputs :
    /\ Idle /\ Len(events) + 2 <= MaxAudited /\ eventIdCounter <= MaxCounter
    /\ \E res \in {login(Store, username, password)} :
           Return(res, Undefined, Undefined, Last("login", res, username, password, ""))

RandomInputs == {"00000000", "deadbeef"}

CallGuestLogin ==
  \E randomBytes \in RandomInputs :
    /\ loginModule = "login_js"
    /\ Idle
    /\ \E res \in {guestLogin(Store, randomBytes)} :
           Return(res, Undefined, Undefined, Last("guestLogin", res, Undefined, Undefined, ""))

\* a second guestLogin() by a caller still holding the first result, within the
\* same millisecond; a1 is the username the first call returned
CallGuestLoginAgain ==
  \E randomBytes \in RandomInputs :
    /\ loginModule = "login_js"
    /\ last.op = "guestLogin"
    /\ \E res \in {guestLogin(Store, randomBytes)} :
           Return(res, Undefined, Undefined,
                  Last("guestLoginAgain", res, last.user.username, Undefined, ""))

\* the clock advances between calls
Tick ==
  /\ Idle
  /\ now < MaxNow
  /\ now' = now + 1
  /\ UNCHANGED <<eventModule, loginModule, heap, events, eventIdCounter, arg, ret, issued, generation, last>>

EventModules == {"event_js", "part_000", "part_001"}
LoginModules == {"login_js", "part_004"}

\* part_004 imports createAuditEvent, which only src/event.js exports
Init ==
  /\ eventModule \in EventModules
  /\ loginModule \in LoginModules
  /\ loginModule = "part_004" => eventModule = "event_js"
  /\ heap = <<>>
  /\ events = <<>>
  /\ eventIdCounter = 1
  /\ now = 0
  /\ arg = Undefined
  /\ ret = Undefined
  /\ issued = <<>>
  /\ generation = 0
  /\ last = NoCall("none")

NextStore ==
  \/ CallCreateEvent
  \/ CallGetEvents
  \/ CallGetEventById
  \/ CallGetEventCount
  \/ CallClearEvents
  \/ Resume

SpecStore == Init /\ [][NextStore]_vars

\* login and what it leaves in the store
NextLogin ==
  \/ CallLogin
  \/ CallGuestLogin
  \/ CallGuestLoginAgain
  \/ CallClearEvents
  \/ Resume

SpecLogin == Init /\ [][NextLogin]_vars

\* the order operations and the events they log
NextOrders ==
  \/ CallCreateOrder
  \/ CallUpdateOrderStatus
  \/ CallCancelOrder
  \/ CallFulfillOrder
  \/ Resume

SpecOrders == Init /\ [][NextOrders]_vars

\* the order and poll queries over a store holding events of both kinds
NextQuery ==
  \/ CallCreateOrder
  \/ CallUpdateOrderStatus
  \/ CallTrackPollEngagement
  \/ CallGetOrderEvents
  \/ CallGetPollEngagementEvents
  \/ RoundTripOrder
  \/ RoundTripPoll
  \/ Resume

SpecQuery == Init /\ [][NextQuery]_vars

\* the audit layer under a moving clock
NextClock ==
  \/ CallCreateAuditEvent
  \/ CallGetAuditEvents
  \/ CallGetAuditEventsByTimeRange
  \/ Tick
  \/ Resume

SpecClock == Init /\ [][NextClock]_vars

NextAlias ==
  \/ KeepCreateEvent
  \/ KeepGetEvents
  \/ KeepGetEventById
  \/ MutateArgument
  \/ MutateReturned
  \/ Resume

SpecAlias == Init /\ [][NextAlias]_vars

\* every operation from a fresh store.  clearEvents puts the store back to its
\* initial value, so what follows it repeats what follows Init; it is exercised
\* in SpecStore and SpecLogin.
Next ==
  \/ CallCreateEvent
  \/ CallGetEvents
  \/ CallGetEventById
  \/ CallGetEventCount
  \/ CallCreateAuditEvent
  \/ CallGetAuditEvents
  \/ CallGetAuditEventCount
  \/ CallGetAuditEventsByTimeRange
  \/ CallTrackPollEngagement
  \/ CallGetPollEngagementEvents
  \/ CallCreateOrder
  \/ CallUpdateOrderStatus
  \/ CallCancelOrder
  \/ CallFulfillOrder
  \/ CallGetOrderEvents
  \/ CallLogin
  \/ CallGuestLogin
  \/ CallGuestLoginAgain
  \/ RoundTripOrder
  \/ RoundTripPoll
  \/ Resume

Spec == Init /\ [][Next]_vars

----------------------------------------------------------------------------
(* Properties.                                                             *)

\* what getEventById and getEvents can show of each stored event
StoredView == [i \in 1..Len(events) |-> View(heap, Ref(events[i]), ViewDepth)]

Stored(i, k) == heap[events[i]].f[k]

IsBlank(v) == v.t = "string" /\ \A i \in 1..Len(v.s) : v.s[i] \in WhiteSpace

\* v without its leading and trailing whitespace, for a string v that is not blank
Stripped(v) ==
  LET solid == {i \in 1..Len(v.s) : v.s[i] \notin WhiteSpace}
      first == CHOOSE i \in solid : \A j \in solid : i <= j
      final == CHOOSE i \in solid : \A j \in solid : j <= i
  IN [v EXCEPT !.s = [i \in 1..(final - first + 1) |-> v.s[first + i - 1]]]

Usable(v) == v.t = "string" /\ ~IsBlank(v)

\* the value of an array holding the stored events at the (increasing) indices in S
ViewOfStored(S) ==
  LET Rank(i) == Cardinality({j \in S : j <= i})
  IN [t |-> "array", s |-> <<>>, n |-> 0,
      f |-> [k \in {Idx(Rank(i)) : i \in S} |->
               View(heap, Ref(events[CHOOSE i \in S : Idx(Rank(i)) = k]), ViewDepth - 1)]]

\* C1: between two clears, the k-th successful create returns id k: the ids
\* returned are 1..N in call order, whatever failed calls came in between.
C1_IdsAreOneToN == \A k \in 1..Len(issued) : issued[k] = k

\* C2: a write by the caller into the metadata object it passed to createEvent
\* changes nothing of what getEventById and getEvents show of the stored events.
C2_ArgumentIsolated == [][last'.op = "mutateArgument" => StoredView' = StoredView]_vars

\* C3: a write by the caller into an object returned by createEvent, getEvents
\* or getEventById changes nothing of what the store shows of its events.
C3_ReturnedIsolated == [][last'.op = "mutateReturned" => StoredView' = StoredView]_vars

\* C4: clearEvents on n events returns n and empties the store, and the next
\* successful create after a clear returns id 1.
C4_ClearResets ==
  /\ [][last'.op = "clearEvents" =>
          /\ last'.ok = "true" /\ last'.count = Len(events)
          /\ events' = <<>>
          /\ getEvents(Store', Null).count = 0
          /\ getEventCount(Store', Null).count = 0]_vars
  /\ [](generation > 0 /\ issued # <<>> => issued[1] = 1)

ProducerOps ==
  {"createOrder", "updateOrderStatus", "cancelOrder", "fulfillOrder", "trackPollEngagement"}

\* C5: a call of an order or poll producer either succeeds and appends exactly
\* one event, or reports failure and leaves the events and the counter alone.
C5_ProducersAtomic ==
  [][last'.op \in ProducerOps =>
       \/ /\ last'.ok = "true"
          /\ Len(events') = Len(events) + 1
          /\ SubSeq(StoredView', 1, Len(events)) = StoredView
          /\ eventIdCounter' = eventIdCounter + 1
       \/ /\ last'.ok = "false"
          /\ events' = events
          /\ StoredView' = StoredView
          /\ eventIdCounter' = eventIdCounter]_vars

\* C6: every public operation returns a result with a boolean success flag
\* for every argument; no exception reaches the caller.
C6_NoExceptionEscapes == ~Idle => last.ok \in {"true", "false"}

\* C7: createEvent fails and changes neither the events nor the counter when
\* type or message is not a non-blank string or metadata is null, an array
\* or not an object; on success the stored type and message are trimmed.
C7_CreateValidates ==
  [][last'.op = "createEvent" =>
       /\ (~Usable(last'.a1) \/ ~Usable(last'.a2) \/ last'.tmpl \in {"null", "array", "string"})
            => /\ last'.ok = "false"
               /\ events' = events
               /\ heap' = heap
               /\ eventIdCounter' = eventIdCounter
       /\ last'.ok = "true"
            => /\ Len(events') = Len(events) + 1
               /\ heap'[events'[Len(events')]].f["type"] = Stripped(last'.a1)
               /\ heap'[events'[Len(events')]].f["message"] = Stripped(last'.a2)]_vars

C7_Witness ==
  /\ last.op = "createEvent" /\ last.ok = "false"
  /\ IsBlank(last.a1) /\ last.tmpl = "flat"
  /\ Len(events) = 1 /\ eventIdCounter = 2

\* C8: createEvent with cyclic metadata fails, stores nothing and consumes no
\* id; with a function-valued member it succeeds and stores the metadata
\* without that member and with every other member.
C8_CyclesFailFunctionsDrop ==
  [][last'.op = "createEvent" /\ Usable(last'.a1) /\ Usable(last'.a2) =>
       /\ last'.tmpl = "cyclic"
            => /\ last'.ok # "true"
               /\ events' = events
               /\ eventIdCounter' = eventIdCounter
       /\ last'.tmpl = "func"
            => /\ last'.ok = "true"
               /\ Len(events') = Len(events) + 1
               /\ StoredView'[Len(events')].f["metadata"].f = [k \in {"k"} |-> Str(<<"a">>)]]_vars

\* C9: getEvents(t), for a non-blank string t, returns the stored events whose
\* type is t trimmed, in insertion order, and their number; getEvents()
\* returns all stored events in insertion order.
C9_FilterExact ==
  last.op = "getEvents" /\ (Nullish(last.a1) \/ Usable(last.a1)) =>
    LET S == IF Nullish(last.a1) THEN 1..Len(events)
             ELSE {i \in 1..Len(events) : Stored(i, "type") = Stripped(last.a1)}
    IN /\ last.ok = "true"
       /\ last.count = Cardinality(S)
       /\ last.view = ViewOfStored(S)

C9_Witness ==
  /\ last.op = "getEvents" /\ last.a1 = Str(<<" ", "audit.", "x">>)
  /\ Len(events) = 2
  /\ Stored(1, "type") = Str(<<"login">>) /\ Stored(2, "type") = Str(<<"audit.", "x">>)
  /\ last.count = 1

\* C10: getEventById rejects an id that is not a positive integer, reports
\* not-found when no stored event has the id, and otherwise returns the event
\* with that id; no two stored events ever share an id.
C10_LookupById ==
  /\ \A i, j \in 1..Len(events) : i # j => Stored(i, "id") # Stored(j, "id")
  /\ last.op = "getEventById" =>
       LET id == last.a1
           valid == id.t = "number" /\ id.n > 0 /\ id.n % 2 = 0
           held == {i \in 1..Len(events) : Stored(i, "id") = id}
       IN /\ ~valid => last.ok = "false" /\ last.err = "Event ID must be a positive integer"
          /\ valid /\ held = {} => last.ok = "false" /\ last.err = "Event with ID not found"
          /\ valid /\ held # {} => last.ok = "true" /\ last.view.f["id"] = id

HasAuditPrefix(v) == v.t = "string" /\ Len(v.s) > 0 /\ Head(v.s) = "audit."

\* C11: getAuditEvents() returns exactly the stored events whose type starts
\* with "audit.", in order, even when other events are stored; getAuditEvents(t)
\* returns exactly the stored events whose type is t trimmed, prefixed or not.
C11_AuditQueryExact ==
  last.op = "getAuditEvents" /\ (Nullish(last.a1) \/ Usable(last.a1)) =>
    LET S == IF Nullish(last.a1)
             THEN {i \in 1..Len(events) : HasAuditPrefix(Stored(i, "type"))}
             ELSE {i \in 1..Len(events) : Stored(i, "type") = Stripped(last.a1)}
    IN /\ last.ok = "true"
       /\ last.count = Cardinality(S)
       /\ last.view = ViewOfStored(S)

C11_Witness ==
  /\ last.op = "getAuditEvents" /\ Nullish(last.a1)
  /\ Len(events) = 2
  /\ Stored(1, "type") = Str(<<"login">>) /\ Stored(2, "type") = Str(<<"audit.", "x">>)
  /\ last.count = 1

IsTime(v) == v.t = "string" /\ v.s = <<"ISO-8601">>

\* C12: for valid bounds with start <= end, getAuditEventsByTimeRange returns
\* exactly the stored audit.-prefixed events stamped within [start, end], both
\* ends included, in insertion order, and never an event without the prefix.
C12_TimeRangeInclusive ==
  last.op = "getAuditEventsByTimeRange" /\ IsTime(last.a1) /\ IsTime(last.a2)
    /\ last.a1.n <= last.a2.n =>
    LET S == {i \in 1..Len(events) :
                /\ HasAuditPrefix(Stored(i, "type"))
                /\ last.a1.n <= Stored(i, "timestamp").n
                /\ Stored(i, "timestamp").n <= last.a2.n}
    IN /\ last.ok = "true"
       /\ last.count = Cardinality(S)
       /\ last.view = ViewOfStored(S)

C12_Witness ==
  /\ last.op = "getAuditEventsByTimeRange"
  /\ last.a1 = ToISOString(0) /\ last.a2 = ToISOString(1)
  /\ Len(events) = 2
  /\ Stored(1, "type") = Str(<<"login">>) /\ Stored(1, "timestamp") = ToISOString(0)
  /\ Stored(2, "type") = Str(<<"audit.", "x">>) /\ Stored(2, "timestamp") = ToISOString(1)
  /\ last.count = 1

AuditFields == {"severity", "source", "auditTimestamp"}

\* C13: an event created by createAuditEvent carries every key the caller
\* supplied plus severity, source and a fresh auditTimestamp; severity and
\* source are the caller's values when supplied, "info" and "system" otherwise.
C13_AuditMetadataMerged ==
  [][last'.op = "createAuditEvent" /\ last'.ok = "true" =>
       LET m == MakeMeta(heap, last'.tmpl)
           given == View(m.heap, m.ref, 1).f
           meta == StoredView'[Len(events')].f["metadata"].f
       IN /\ Len(events') = Len(events) + 1
          /\ AuditFields \subseteq DOMAIN meta
          /\ \A k \in DOMAIN given \ AuditFields : k \in DOMAIN meta /\ meta[k] = given[k]
          /\ meta["auditTimestamp"] = ToISOString(now)
          /\ meta["severity"] = IF "severity" \in DOMAIN given THEN given["severity"]
                                ELSE Str(<<"info">>)
          /\ meta["source"] = IF "source" \in DOMAIN given THEN given["source"]
                              ELSE Str(<<"system">>)]_vars

\* C14: in every reachable state, every stored event whose type starts with
\* "audit." has metadata carrying severity, source and auditTimestamp,
\* whichever operation created it.
C14_AuditEventsCarryFields ==
  \A i \in 1..Len(events) :
    HasAuditPrefix(Stored(i, "type")) =>
      AuditFields \subseteq DOMAIN StoredView[i].f["metadata"].f

\* the types of the events a step appended, in order
Appended == [i \in 1..(Len(events') - Len(events)) |-> heap'[events'[Len(events) + i]].f["type"]]

\* the reason recorded with the event appended last
LastReason == StoredView'[Len(events')].f["metadata"].f["reason"]

RECURSIVE CharCount(_)
CharCount(s) == IF s = <<>> THEN 0 ELSE ChunkLen(s[Len(s)]) + CharCount(SubSeq(s, 1, Len(s) - 1))

Credentials ==
  {<<"admin", "admin123", "administrator">>, <<"user", "user123", "user">>,
   <<"demo", "demo123", "user">>}

NameChars(v) == \A i \in 1..Len(v.s) : v.s[i] \notin WhiteSpace \cup {"bad!name", "o'brien"}

\* both arguments are strings within the length limit, non-blank, the name well-formed
PassesValidation(u, p) ==
  /\ u.t = "string" /\ p.t = "string"
  /\ CharCount(u.s) <= 255 /\ CharCount(p.s) <= 255
  /\ ~IsBlank(u) /\ ~IsBlank(p)
  /\ NameChars(Stripped(u))

Matching(u, p) ==
  {c \in Credentials : Stripped(u).s = <<c[1]>> /\ Stripped(p).s = <<c[2]>>}

\* C15: every call of login, whatever its arguments and outcome, appends at
\* least one audit.-prefixed event before it returns.
C15_LoginAlwaysAudits ==
  [][last'.op = "login" =>
       \E i \in 1..Len(Appended) : HasAuditPrefix(Appended[i])]_vars

\* C16: a login call whose inputs pass validation appends exactly two events,
\* audit.login.attempt and then its outcome: audit.login.success when the
\* credentials match, audit.login.failure (user_not_found or
\* incorrect_password) otherwise.
C16_AttemptThenOutcome ==
  [][last'.op = "login" /\ PassesValidation(last'.a1, last'.a2) =>
       /\ Len(Appended) = 2
       /\ SubSeq(events', 1, Len(events)) = events
       /\ Appended[1] = Str(<<"audit.", "login.attempt">>)
       /\ IF Matching(last'.a1, last'.a2) # {}
          THEN Appended[2] = Str(<<"audit.", "login.success">>)
          ELSE /\ Appended[2] = Str(<<"audit.", "login.failure">>)
               /\ LastReason = IF \E c \in Credentials : Stripped(last'.a1).s = <<c[1]>>
                               THEN Str(<<"incorrect_password">>)
                               ELSE Str(<<"user_not_found">>)]_vars

\* C17: login succeeds exactly when both arguments are strings of at most 255
\* characters, the trimmed username is well-formed and the trimmed pair is the
\* (username, password) of an entry of the user list; the result then carries
\* that entry's username and role and nothing else, whatever the store holds.
C17_SuccessIffCredentialsMatch ==
  [][last'.op = "login" =>
       LET found == Matching(last'.a1, last'.a2)
       IN /\ last'.ok = "true" <=> (PassesValidation(last'.a1, last'.a2) /\ found # {})
          /\ last'.ok = "true" =>
               /\ \E c \in found :
                    last'.user = [username |-> Str(<<c[1]>>), role |-> Str(<<c[3]>>)]
               /\ DOMAIN last'.user = {"username", "role"}
               /\ last'.err = ""
          /\ last'.ok # "true" => last'.ok = "false" /\ last'.user = NoUser]_vars

\* a padded name logs in while the store already holds events
C17_Witness ==
  /\ last.op = "login" /\ last.ok = "true"
  /\ last.a1 = Str(<<" ", "admin", " ">>)
  /\ last.user.role = Str(<<"administrator">>)
  /\ Len(events) >= 3

\* C18: a validated login whose credentials do not match returns
\* {success: false, error: "Invalid username or password"} and nothing more,
\* the same value for an unknown username and for a wrong password.
C18_FailureDoesNotRevealUser ==
  [][(/\ last'.op = "login"
      /\ PassesValidation(last'.a1, last'.a2)
      /\ Matching(last'.a1, last'.a2) = {})
       => /\ last'.ok = "false"
          /\ last'.err = "Invalid username or password"
          /\ last'.user = NoUser
          /\ last'.view = Undefined
          /\ last'.id = 0 /\ last'.count = 0]_vars

\* an unknown name was tried with a password an entry of the list carries
C18_Witness ==
  /\ last.op = "login" /\ last.ok = "false"
  /\ last.a1 = Str(<<"nobody">>) /\ last.a2 = Str(<<"admin123">>)

\* C19: an argument of more than 255 characters, counted before trimming, is
\* rejected as too long (the username first), and an argument of 255
\* characters or fewer is never rejected for its length.
C19_LengthCheckedBeforeTrim ==
  [][(last'.op = "login" /\ last'.a1.t = "string" /\ last'.a2.t = "string") =>
       LET ulen == CharCount(last'.a1.s)
           plen == CharCount(last'.a2.s)
           ulong == "Username is too long (maximum 255 characters)"
           plong == "Password is too long (maximum 255 characters)"
       IN /\ ulen > 255 => last'.ok = "false" /\ last'.err = ulong
          /\ (ulen <= 255 /\ plen > 255) => last'.ok = "false" /\ last'.err = plong
          /\ ulen <= 255 => last'.err # ulong
          /\ plen <= 255 => last'.err # plong]_vars

\* a name of 256 characters whose trimmed form has five was rejected
C19_Witness ==
  /\ last.op = "login" /\ last.ok = "false"
  /\ last.a1 = Str(<<" {250}", " ", "admin">>)
  /\ last.a2 = Str(<<"admin123">>)

\* the event type each order operation logs
LoggedType ==
  [updateOrderStatus |-> Str(<<"order_updated">>),
   cancelOrder |-> Str(<<"order_cancelled">>),
   fulfillOrder |-> Str(<<"order_fulfilled">>)]

\* the arguments after the order id are ones the operation accepts
OrderArgsAccepted(l) ==
  CASE l.op = "updateOrderStatus" ->
         /\ l.a2 \in {Str(<<"pending">>), Str(<<"processing">>), Str(<<"fulfilled">>), Str(<<"cancelled">>)}
         /\ l.tmpl \in {"undefined", "flat"}
    [] l.op = "cancelOrder" -> l.a2.t \in {"undefined", "string"}
    [] l.op = "fulfillOrder" -> l.tmpl \in {"undefined", "flat"}

FiltersOf(tmpl) == The({View(m.heap, m.ref, 1) : m \in {MakeFilters(<<>>, tmpl)}})

\* the filter supplied under key k, Undefined when there is none
Supplied(tmpl, k) ==
  LET flt == FiltersOf(tmpl)
  IN IF flt.t = "object" /\ k \in DOMAIN flt.f /\ ~Nullish(flt.f[k]) THEN flt.f[k] ELSE Undefined

\* metadata field k of the i-th stored event, Undefined when there is none
MetaOf(i, k) ==
  LET mv == StoredView[i].f["metadata"]
  IN IF mv.t = "object" /\ k \in DOMAIN mv.f THEN mv.f[k] ELSE Undefined

OrderTypeNames == {<<"order_created">>, <<"order_updated">>, <<"order_cancelled">>, <<"order_fulfilled">>}

\* the i-th stored event is an order event passing the filters of the template
OrderMatch(i, tmpl) ==
  /\ Stored(i, "type").t = "string" /\ Stored(i, "type").s \in OrderTypeNames
  /\ \A k \in {"order_id", "customer_id"} :
       Supplied(tmpl, k) # Undefined => MetaOf(i, k) = Supplied(tmpl, k)
  /\ Supplied(tmpl, "status") # Undefined =>
       \/ MetaOf(i, "status") = Supplied(tmpl, "status")
       \/ MetaOf(i, "new_status") = Supplied(tmpl, "status")

\* C21: getOrderEvents(filters), for no filters or an object of non-empty
\* string filters, returns exactly, in insertion order, the stored order events
\* (order_created, order_updated, order_cancelled, order_fulfilled) that equal
\* every supplied order_id and customer_id filter and whose metadata.status or
\* metadata.new_status equals a supplied status filter; no other event.
C21_OrderQueryExact ==
  (/\ last.op = "getOrderEvents"
   /\ last.tmpl \in {"undefined", "byOrder", "byStatus", "byCustomer", "byBoth", "paddedOrder"})
    => LET S == {i \in 1..Len(events) : OrderMatch(i, last.tmpl)}
       IN /\ last.ok = "true"
          /\ last.count = Cardinality(S)
          /\ last.view = ViewOfStored(S)

\* a status filter picked the update to that status and left out an event of
\* another type stored before it
C21_Witness ==
  /\ last.op = "getOrderEvents" /\ last.tmpl = "byStatus"
  /\ Len(events) = 2
  /\ Stored(1, "type") = Str(<<"poll_engagement">>)
  /\ Stored(2, "type") = Str(<<"order_updated">>)
  /\ MetaOf(2, "new_status") = Str(<<"fulfilled">>)
  /\ last.count = 1

\* C22: two calls of guestLogin, also within one millisecond, return different
\* usernames.
C22_GuestNamesDistinct ==
  last.op = "guestLoginAgain" => last.ok = "true" /\ last.user.username # last.a1

\* what createEvent answers to the arguments of the call just made, from the
\* store as it was before that call
DirectCreate ==
  The({createEvent([Store EXCEPT !.heap = m.heap], last'.a1, last'.a2, m.ref)
       : m \in {MakeMeta(heap, last'.tmpl)}})

\* C23: createAuditEvent stores an event only for arguments that createEvent
\* itself accepts; metadata createEvent rejects (null, an array, a non-object)
\* is rejected with nothing stored.
C23_AuditStoresOnlyAcceptable ==
  [][last'.op = "createAuditEvent" =>
       /\ events' # events => DirectCreate.ok = "true"
       /\ DirectCreate.ok # "true" => last'.ok = "false" /\ events' = events]_vars

\* the first input check of login that the arguments fail, 0 when they pass all:
\* 1 username type, 2 password type, 3 username length, 4 password length,
\* 5 empty username, 6 empty password, 7 username characters
FirstFailedCheck(u, p) ==
  IF u.t # "string" THEN 1
  ELSE IF p.t # "string" THEN 2
  ELSE IF CharCount(u.s) > 255 THEN 3
  ELSE IF CharCount(p.s) > 255 THEN 4
  ELSE IF IsBlank(u) THEN 5
  ELSE IF IsBlank(p) THEN 6
  ELSE IF ~NameChars(Stripped(u)) THEN 7
  ELSE 0

\* C24: a login call rejected by input validation appends exactly one audit
\* event and no audit.login.attempt: audit.login.failure for a non-string or
\* empty argument, audit.security.suspicious for an over-long argument or a
\* username with a character outside [a-zA-Z0-9._-].
C24_RejectedLoginAuditsOnce ==
  [][(last'.op = "login" /\ FirstFailedCheck(last'.a1, last'.a2) # 0) =>
       /\ last'.ok = "false"
       /\ SubSeq(events', 1, Len(events)) = events
       /\ Appended = <<IF FirstFailedCheck(last'.a1, last'.a2) \in {1, 2, 5, 6}
                       THEN Str(<<"audit.", "login.failure">>)
                       ELSE Str(<<"audit.", "security.suspicious">>)>>]_vars

\* the error of each input check of login, in the order the checks are made
CheckErrors ==
  <<"Username is required and must be a string",
    "Password is required and must be a string",
    "Username is too long (maximum 255 characters)",
    "Password is too long (maximum 255 characters)",
    "Username cannot be empty",
    "Password cannot be empty",
    "Username contains invalid characters (only letters, numbers, dots, hyphens, and underscores allowed)">>

\* C25: when several input checks of login would fail, the error returned is
\* that of the first failing check in the order username type, password type,
\* username length, password length, empty username, empty password, username
\* characters, credentials.
C25_FirstFailingCheckWins ==
  [][last'.op = "login" =>
       LET n == FirstFailedCheck(last'.a1, last'.a2)
       IN /\ n # 0 => last'.ok = "false" /\ last'.err = CheckErrors[n]
          /\ n = 0 => last'.err \in {"", "Invalid username or password"}]_vars

\* a non-string password won over an over-long username
C25_Witness ==
  /\ last.op = "login"
  /\ last.a1 = Str(<<"x{256}">>) /\ last.a2 = Num(5)
  /\ last.err = "Password is required and must be a string"

QueryOps ==
  {"getEvents", "getEventById", "getEventCount", "getAuditEvents", "getAuditEventCount",
   "getAuditEventsByTimeRange", "getOrderEvents", "getPollEngagementEvents",
   "guestLogin", "guestLoginAgain"}

CreateOps ==
  {"createEvent", "createAuditEvent", "trackPollEngagement", "createOrder",
   "updateOrderStatus", "cancelOrder", "fulfillOrder", "login",
   "createOrderThenQuery", "trackThenQuery"}

\* C26: the queries and guestLogin leave the stored events and the id counter
\* as they were, whatever the argument and the outcome; the stored sequence
\* changes only by a create appending at its end or by clearEvents emptying it,
\* so a stored event keeps its position and its field values until the next
\* clear.
C26_OnlyCreateAndClearChangeStore ==
  [][/\ last'.op \in QueryOps =>
          StoredView' = StoredView /\ eventIdCounter' = eventIdCounter
     /\ \/ StoredView' = StoredView
        \/ /\ last'.op \in CreateOps
           /\ Len(events') > Len(events)
           /\ SubSeq(StoredView', 1, Len(events)) = StoredView
        \/ last'.op = "clearEvents" /\ events' = <<>>]_vars

\* C27: an event appended by updateOrderStatus has metadata.order_id equal to
\* the trimmed orderId and metadata.new_status equal to newStatus, one of the
\* four statuses, whatever keys additionalData has; an event appended by
\* fulfillOrder has metadata.order_id equal to the trimmed orderId, whatever
\* keys fulfillmentData has.
C27_OrderMetadataKeepsIdAndStatus ==
  [][(last'.op \in {"updateOrderStatus", "fulfillOrder"} /\ Len(events') > Len(events)) =>
       LET meta == StoredView'[Len(events')].f["metadata"].f
       IN /\ meta["order_id"] = Stripped(last'.a1)
          /\ last'.op = "updateOrderStatus" =>
               /\ meta["new_status"] = last'.a2
               /\ last'.a2.s \in {<<"pending">>, <<"processing">>, <<"fulfilled">>, <<"cancelled">>}]_vars

\* C28: when createOrder accepts an order, the getOrderEvents({order_id: s})
\* that follows, with s the order_id as passed in, returns the event just
\* created; the same for trackPollEngagement and
\* getPollEngagementEvents({poll_id: s}); also when s has surrounding whitespace.
C28_ProducerQueryRoundTrip ==
  [][(/\ last'.op \in {"createOrderThenQuery", "trackThenQuery"}
      /\ Len(events') = Len(events) + 1)
       => /\ last'.ok = "true"
          /\ \E k \in DOMAIN last'.view.f :
               last'.view.f[k] = View(heap', Ref(events'[Len(events')]), ViewDepth - 1)]_vars

\* C29: getOrderEvents(null) and getPollEngagementEvents(null) answer as a call
\* without filters does: success with every stored order event, respectively
\* every stored poll_engagement event.
C29_NullFiltersMeanNoFilters ==
  (last.op \in {"getOrderEvents", "getPollEngagementEvents"} /\ last.tmpl = "null") =>
    LET S == IF last.op = "getOrderEvents"
             THEN {i \in 1..Len(events) : OrderMatch(i, "undefined")}
             ELSE {i \in 1..Len(events) : Stored(i, "type") = Str(<<"poll_engagement">>)}
    IN /\ last.ok = "true"
       /\ last.count = Cardinality(S)
       /\ last.view = ViewOfStored(S)

\* the chunk sequence needle occurs in hay
Contains(hay, needle) ==
  \E i \in 1..(Len(hay) - Len(needle) + 1) : SubSeq(hay, i, i + Len(needle) - 1) = needle

\* the texts that are passwords for the call: the one submitted, as passed and
\* trimmed, and the ones of the user list
Secrets(p) ==
  {<<c[2]>> : c \in Credentials}
    \cup (IF p.t = "string" /\ ~IsBlank(p) THEN {p.s, Stripped(p).s} ELSE {})

\* value v, a field of an event, shows one of the secrets
Shows(v, secrets) == v.t = "string" /\ \E x \in secrets : Contains(v.s, x)

====
